---- MODULE Spec2Model ----
(***************************************************************************)
(* Model of the PSR-3 style file logger of src/__init__.py:                *)
(* SimpleLogger (the root logger that owns the file object and the        *)
(* registry of channel proxies) and SimpleLoggerProxy (a channel proxy).  *)
(*                                                                         *)
(* A text (a Python str) is modelled as the sequence of its code points,   *)
(* and the content of the file as the sequence of its bytes, so that       *)
(* str.lower, str.upper, json.dumps, str.format, the encoding of the text  *)
(* and the file's byte offsets are computed, not assumed.  json.dumps and  *)
(* the encoding are defined for every code point; str.lower, str.upper and *)
(* repr are defined for the code points 0 .. 255.                          *)
(***************************************************************************)
EXTENDS Integers, Sequences, FiniteSets, TLC

VARIABLES
    fsExists,   \* os.path.exists(filename): the log file is on disk
    fsContent,  \* the bytes of the log file on disk
    lg,         \* per root logger: lifecycle, file object, registry
    proxies,    \* the SimpleLoggerProxy objects that were constructed
    last,       \* the call that ran last, what it returned or raised
    emitted,    \* the log entries whose write returned, in call order
    nCalls,     \* number of log and write calls made so far
    th          \* concurrent callers: position and locals of each thread

vars == <<fsExists, fsContent, lg, proxies, last, emitted, nCalls, th>>

(***************************************************************************)
(* Bounds of the model.                                                    *)
(***************************************************************************)
MaxCalls == 2
MaxFormatCalls == 1
MaxDels == 2
MaxDirect == 1

(***************************************************************************)
(* Text helpers.                                                           *)
(***************************************************************************)
\* the printable ASCII characters in the order of their code points:
\* chr(32) .. chr(95), and chr(97) .. chr(126) (chr(96) is the grave accent)
AsciiLow ==
    <<" ","!","\"","#","$","%","&","'","(",")","*","+",",","-",".","/",
      "0","1","2","3","4","5","6","7","8","9",":",";","<","=",">","?",
      "@","A","B","C","D","E","F","G","H","I","J","K","L","M","N","O",
      "P","Q","R","S","T","U","V","W","X","Y","Z","[","\\","]","^","_">>
AsciiHigh ==
    <<"a","b","c","d","e","f","g","h","i","j","k","l","m","n","o","p",
      "q","r","s","t","u","v","w","x","y","z","{","|","}","~">>

\* ord() on the printable ASCII characters
OrdTable ==
    [c \in {AsciiLow[i] : i \in 1..Len(AsciiLow)} \cup {AsciiHigh[i] : i \in 1..Len(AsciiHigh)} |->
        IF \E i \in 1..Len(AsciiLow) : AsciiLow[i] = c
        THEN 31 + CHOOSE i \in 1..Len(AsciiLow) : AsciiLow[i] = c
        ELSE 96 + CHOOSE i \in 1..Len(AsciiHigh) : AsciiHigh[i] = c]

\* ord(c) of a printable ASCII character
Ord(c) == OrdTable[c]

\* the text made of the printable ASCII characters cs
Text(cs) == [i \in 1..Len(cs) |-> Ord(cs[i])]

\* the code points of the control characters json.dumps and repr name
BS == 8
TAB == 9
NL == 10
FF == 12
CR == 13
DEL == 127

\* the code points str.lower and str.upper are defined on
CaseDomain == 0..255

\* 'A'..'Z', and the capital letters of Latin-1 (215 is the multiplication sign)
UpperCase == (65..90) \cup ((192..222) \ {215})

\* 'a'..'z', and the small letters of Latin-1 that have a capital letter 32
\* code points below (247 is the division sign)
LowerCase == (97..122) \cup ((224..254) \ {247})

\* str.lower() of one character
LowerChar(c) ==
    CASE c \in UpperCase -> c + 32
      [] c \in CaseDomain \ UpperCase -> c

\* str.upper() of one character: the sharp s becomes 'SS', the micro sign the
\* Greek capital mu, y with diaeresis the capital of Latin Extended-A
UpperChar(c) ==
    CASE c \in LowerCase -> <<c - 32>>
      [] c = 223 -> <<83, 83>>
      [] c = 181 -> <<924>>
      [] c = 255 -> <<376>>
      [] c \in CaseDomain \ (LowerCase \cup {223, 181, 255}) -> <<c>>

\* the concatenation of a sequence of texts
RECURSIVE Flatten(_)
Flatten(ss) ==
    IF Len(ss) = 0 THEN <<>>
    ELSE IF Len(ss) = 1 THEN ss[1]
    ELSE Flatten(SubSeq(ss, 1, Len(ss) \div 2))
         \o Flatten(SubSeq(ss, Len(ss) \div 2 + 1, Len(ss)))

\* str.lower()
Lower(s) == [i \in 1..Len(s) |-> LowerChar(s[i])]

\* str.upper()
Upper(s) == Flatten([i \in 1..Len(s) |-> UpperChar(s[i])])

Digit(n) == Ord("0") + n

\* a hexadecimal digit in lower case
HexDigit(n) == Text(<<"0","1","2","3","4","5","6","7","8","9","a","b","c","d","e","f">>)[n + 1]

Hex2(n) == <<HexDigit((n \div 16) % 16), HexDigit(n % 16)>>
Hex4(n) == Hex2(n \div 256) \o Hex2(n % 256)

\* the decimal text of an int
RECURSIVE IntStr(_)
IntStr(n) ==
    IF n < 0 THEN Text(<<"-">>) \o IntStr(0 - n)
    ELSE IF n < 10 THEN <<Digit(n)>>
    ELSE IntStr(n \div 10) \o <<Digit(n % 10)>>

Pad2(n) == <<Digit((n \div 10) % 10), Digit(n % 10)>>
Pad4(n) == Pad2(n \div 100) \o Pad2(n % 100)

\* datetime.strftime('%Y-%m-%d %H:%M:%S')
Strftime(t) ==
    Pad4(t.year) \o Text(<<"-">>) \o Pad2(t.month) \o Text(<<"-">>) \o Pad2(t.day)
    \o Text(<<" ">>)
    \o Pad2(t.hour) \o Text(<<":">>) \o Pad2(t.minute) \o Text(<<":">>) \o Pad2(t.second)

\* number of newline characters in a text, or of newline bytes in the file
CountNL(s) == Cardinality({i \in 1..Len(s) : s[i] = NL})

IsPrefix(s, t) == Len(s) <= Len(t) /\ SubSeq(t, 1, Len(s)) = s

(***************************************************************************)
(* The encoding of the file object open(filename, mode) returns: UTF-8,    *)
(* errors='strict'.                                                        *)
(***************************************************************************)
\* the code points that have no encoding
Surrogates == 55296..57343

\* the bytes of one character
Utf8(c) ==
    CASE c < 128 -> <<c>>
      [] c >= 128 /\ c < 2048 -> <<192 + (c \div 64), 128 + (c % 64)>>
      [] c >= 2048 /\ c < 65536 ->
            <<224 + (c \div 4096), 128 + ((c \div 64) % 64), 128 + (c % 64)>>
      [] c >= 65536 ->
            <<240 + (c \div 262144), 128 + ((c \div 4096) % 64),
              128 + ((c \div 64) % 64), 128 + (c % 64)>>

\* whether text.encode() returns (it raises UnicodeEncodeError on a surrogate)
Encodable(s) == \A i \in 1..Len(s) : s[i] \notin Surrogates

\* text.encode(): ASCII text is its own encoding
Encode(s) ==
    IF \A i \in 1..Len(s) : s[i] < 128 THEN s
    ELSE Flatten([i \in 1..Len(s) |-> Utf8(s[i])])

(***************************************************************************)
(* Python values passed as the context and the extra of a write.           *)
(***************************************************************************)
PyNone == [t |-> "none", v |-> <<>>]
PyList(items) == [t |-> "list", v |-> items]
PyDict(pairs) == [t |-> "dict", v |-> pairs]
PyInt(n) == [t |-> "int", v |-> <<n>>]
PyStr(s) == [t |-> "str", v |-> s]
PySet == [t |-> "set", v |-> <<>>]

\* sep.join(ts)
JoinTexts(ts, sep) == Flatten([i \in 1..Len(ts) |-> IF i = 1 THEN ts[i] ELSE sep \o ts[i]])

\* json.dumps of one character inside a string literal (ensure_ascii): the
\* short escapes, printable ASCII as it is, \uXXXX for every other character
\* and a surrogate pair for a character above the basic plane
JsonChar(c) ==
    CASE c = NL  -> Text(<<"\\", "n">>)
      [] c = CR  -> Text(<<"\\", "r">>)
      [] c = TAB -> Text(<<"\\", "t">>)
      [] c = FF  -> Text(<<"\\", "f">>)
      [] c = BS  -> Text(<<"\\", "b">>)
      [] c = Ord("\"") -> Text(<<"\\", "\"">>)
      [] c = Ord("\\") -> Text(<<"\\", "\\">>)
      [] c \in (32..126) \ {Ord("\""), Ord("\\")} -> <<c>>
      [] c \in (0..65535) \ ((32..126) \cup {NL, CR, TAB, FF, BS}) ->
            Text(<<"\\", "u">>) \o Hex4(c)
      [] c >= 65536 ->
            Text(<<"\\", "u">>) \o Hex4(55296 + ((c - 65536) \div 1024))
            \o Text(<<"\\", "u">>) \o Hex4(56320 + ((c - 65536) % 1024))

JsonString(s) ==
    Text(<<"\"">>) \o Flatten([i \in 1..Len(s) |-> JsonChar(s[i])]) \o Text(<<"\"">>)

\* whether json.dumps(o) returns (it raises TypeError on a value it cannot encode)
RECURSIVE JsonSerializable(_)
JsonSerializable(o) ==
    CASE o.t \in {"none", "int", "str"} -> TRUE
      [] o.t = "list" -> \A i \in 1..Len(o.v) : JsonSerializable(o.v[i])
      [] o.t = "dict" -> \A i \in 1..Len(o.v) : JsonSerializable(o.v[i][2])
      [] OTHER -> FALSE

\* json.dumps(o) with the default separators
RECURSIVE JsonDumps(_)
JsonDumps(o) ==
    CASE o.t = "none" -> Text(<<"n","u","l","l">>)
      [] o.t = "int"  -> IntStr(o.v[1])
      [] o.t = "str"  -> JsonString(o.v)
      [] o.t = "list" ->
            Text(<<"[">>)
            \o JoinTexts([i \in 1..Len(o.v) |-> JsonDumps(o.v[i])], Text(<<",", " ">>))
            \o Text(<<"]">>)
      [] o.t = "dict" ->
            Text(<<"{">>)
            \o JoinTexts([i \in 1..Len(o.v) |->
                            JsonString(o.v[i][1]) \o Text(<<":", " ">>)
                            \o JsonDumps(o.v[i][2])],
                         Text(<<",", " ">>))
            \o Text(<<"}">>)

\* the quote repr() puts around a str
ReprQuote(s) ==
    IF (\E i \in 1..Len(s) : s[i] = Ord("'")) /\ ~(\E i \in 1..Len(s) : s[i] = Ord("\""))
    THEN Ord("\"") ELSE Ord("'")

\* str.isprintable() of one character of Latin-1: not a control character, not
\* the no-break space (160), not the soft hyphen (173)
Printable(c) == c \in (32..126) \cup (161..172) \cup (174..255)

\* repr() of one character of a str quoted with q
ReprChar(c, q) ==
    CASE c = Ord("\\") -> Text(<<"\\", "\\">>)
      [] c = q   -> <<Ord("\\"), q>>
      [] c = NL  -> Text(<<"\\", "n">>)
      [] c = CR  -> Text(<<"\\", "r">>)
      [] c = TAB -> Text(<<"\\", "t">>)
      [] c \notin {Ord("\\"), q} /\ Printable(c) -> <<c>>
      [] c \in (0..255) \ {NL, CR, TAB} /\ ~Printable(c) -> Text(<<"\\", "x">>) \o Hex2(c)

ReprString(s) ==
    <<ReprQuote(s)>> \o Flatten([i \in 1..Len(s) |-> ReprChar(s[i], ReprQuote(s))])
    \o <<ReprQuote(s)>>

\* repr(o)
RECURSIVE PyRepr(_)
PyRepr(o) ==
    CASE o.t = "none" -> Text(<<"N","o","n","e">>)
      [] o.t = "int"  -> IntStr(o.v[1])
      [] o.t = "str"  -> ReprString(o.v)
      [] o.t = "set"  -> Text(<<"s","e","t","(",")">>)
      [] o.t = "list" ->
            Text(<<"[">>)
            \o JoinTexts([i \in 1..Len(o.v) |-> PyRepr(o.v[i])], Text(<<",", " ">>))
            \o Text(<<"]">>)
      [] o.t = "dict" ->
            Text(<<"{">>)
            \o JoinTexts([i \in 1..Len(o.v) |->
                            ReprString(o.v[i][1]) \o Text(<<":", " ">>) \o PyRepr(o.v[i][2])],
                         Text(<<",", " ">>))
            \o Text(<<"}">>)

\* str(o), what {extra!s} renders: a str as it is, any other value by its repr
StrOf(o) == IF o.t = "str" THEN o.v ELSE PyRepr(o)

\* "if context is None: context = []", "if extra is None: extra = []"
OrEmptyList(o) == IF o.t = "none" THEN PyList(<<>>) ELSE o

(***************************************************************************)
(* SimpleLogger: level constants and the default channel.                  *)
(***************************************************************************)
EMERGENCY == Text(<<"E","M","E","R","G","E","N","C","Y">>)
ALERT == Text(<<"A","L","E","R","T">>)
CRITICAL == Text(<<"C","R","I","T","I","C","A","L">>)
ERROR == Text(<<"E","R","R","O","R">>)
WARNING == Text(<<"W","A","R","N","I","N","G">>)
NOTICE_Renamed == Text(<<"N","O","T","I","C","E">>)
NOTICE == Text(<<"I","N","F","O">>)
INFO == Text(<<"I","N","F","O">>)
DEBUG == Text(<<"D","E","B","U","G">>)

DEFAULT_CHANNEL == Text(<<"a","p","p">>)

LeveledMethods ==
    {"emergency", "alert", "critical", "error", "warning", "notice", "info", "debug"}

\* the level a leveled method hands to self.log
MethodLevel(m) ==
    CASE m = "emergency" -> EMERGENCY
      [] m = "alert"     -> ALERT
      [] m = "critical"  -> CRITICAL
      [] m = "error"     -> ERROR
      [] m = "warning"   -> WARNING
      [] m = "notice"    -> NOTICE
      [] m = "info"      -> INFO
      [] m = "debug"     -> DEBUG

\* a call of the logging surface: a leveled method, or log(level, ...)
LeveledCall(m) == [method |-> m, level |-> MethodLevel(m)]
GenericCall(level) == [method |-> "log", level |-> level]

\* the log entry write() builds
FormatEntry(now, channel, level, message, context, extra) ==
    Text(<<"[">>) \o Strftime(now) \o Text(<<"]", " ">>) \o Lower(channel)
    \o Text(<<".">>) \o Upper(level) \o Text(<<":", " ">>) \o message \o Text(<<" ">>)
    \o JsonDumps(OrEmptyList(context)) \o Text(<<" ">>) \o StrOf(OrEmptyList(extra))
    \o <<NL>>


(***************************************************************************)
(* Objects.  A proxy is identified by <<root logger, serial number>>: two   *)
(* proxies are the same instance iff their identities are equal.  A proxy  *)
(* is made by fork, or by client code that calls the constructor.          *)
(*                                                                         *)
(* A root logger is "none" before its constructor ran, "live" after it,    *)
(* "torn" once __del__ was called on it as a method (the object is still   *)
(* referenced and every method can still be called on it), and "gone"      *)
(* once it was finalized with its proxies (nothing references them).       *)
(***************************************************************************)
Loggers == {"A", "B"}

NoProxy == <<>>

NoLogger ==
    [st |-> "none", dels |-> 0, mode |-> "-", pos |-> 0, closed |-> FALSE,
     registry |-> <<>>, nobj |-> 0, buf |-> <<>>, bbuf |-> <<>>]

\* the record of a call: the operation, the root logger it reached, whether it
\* was made on the root logger or on a proxy, the method, the proxy that logged,
\* the channel given to fork or to write, the context given to a log call, the
\* proxy returned, the error raised to the caller, and the error raised in a
\* finalizer, which the interpreter reports and drops
Call(op, L, via, method, proxy, channel, context, ret, err) ==
    [op |-> op, logger |-> L, via |-> via, method |-> method, proxy |-> proxy,
     channel |-> channel, context |-> context, ret |-> ret, err |-> err,
     ignored |-> "-"]

NoCall == Call("none", "-", "-", "-", NoProxy, <<>>, PyNone, NoProxy, "-")

\* the object exists and is referenced: its methods can be called
Reachable(L) == lg[L].st \in {"live", "torn"}

\* channel in self._proxy_registry
RegHas(reg, c) == \E i \in 1..Len(reg) : reg[i].channel = c

\* self._proxy_registry[channel]
RegGet(reg, c) == reg[CHOOSE i \in 1..Len(reg) : reg[i].channel = c].proxy

\* self._proxy_registry[channel] = p  (an existing key keeps its place)
RegSet(reg, c, p) ==
    IF RegHas(reg, c)
    THEN [i \in 1..Len(reg) |-> IF reg[i].channel = c THEN [reg[i] EXCEPT !.proxy = p]
                                                        ELSE reg[i]]
    ELSE Append(reg, [channel |-> c, proxy |-> p])

\* SimpleLoggerProxy(logger=L, channel=c), the n-th proxy made for L, by fork
NewProxy(L, n, c) == [id |-> <<L, n>>, logger |-> L, channel |-> c, by |-> "fork"]

ProxyObj(id) == CHOOSE p \in proxies : p.id = id

\* fork without the registry lookup: a proxy is made on every call
ForkOn_NoLookup(L, l, c) ==
    LET p == NewProxy(L, l.nobj + 1, c)
        r == RegSet(l.registry, c, p.id)
    IN [lg |-> [l EXCEPT !.registry = r, !.nobj = l.nobj + 1],
        ret |-> RegGet(r, c), made |-> {p}]

\* fork that normalises the channel name when it registers the proxy
ForkOn_LowerKey(L, l, c) ==
    IF RegHas(l.registry, Lower(c))
    THEN [lg |-> l, ret |-> RegGet(l.registry, Lower(c)), made |-> {}]
    ELSE LET p == NewProxy(L, l.nobj + 1, Lower(c))
             r == RegSet(l.registry, Lower(c), p.id)
         IN [lg |-> [l EXCEPT !.registry = r, !.nobj = l.nobj + 1],
             ret |-> RegGet(r, Lower(c)), made |-> {p}]

\* SimpleLogger.fork on logger record l of root L: the record after the call,
\* the proxy returned and the proxy objects constructed
ForkOn(L, l, c) ==
    IF RegHas(l.registry, c)
    THEN [lg |-> l, ret |-> RegGet(l.registry, c), made |-> {}]
    ELSE LET p == NewProxy(L, l.nobj + 1, c)
             r == RegSet(l.registry, c, p.id)
         IN [lg |-> [l EXCEPT !.registry = r, !.nobj = l.nobj + 1],
             ret |-> RegGet(r, c), made |-> {p}]

(***************************************************************************)
(* The file object open() returns: a text layer that encodes what write()  *)
(* is given and collects the bytes (buf), over a binary buffer (bbuf),     *)
(* over the file descriptor.  Sizes and offsets are numbers of bytes.      *)
(* The operations below take and return the logger record together with    *)
(* the content of the file on disk, and the error raised.                  *)
(***************************************************************************)
\* the text layer hands its pending text down once it holds this many bytes
CHUNK_SIZE == 8192

\* the size of the binary buffer: the block size of the log file's file system
BUFFER_SIZE == 4096

File(l, content) == [err |-> "-", lg |-> l, content |-> content]

\* the bytes of the file after data is written at offset pos without O_APPEND
WriteAt(content, pos, data) ==
    SubSeq(content, 1, pos) \o data \o SubSeq(content, pos + Len(data) + 1, Len(content))

\* a write to the file descriptor that leaves the offset where it was
RawWrite_NoAdvance(s, data) ==
    IF data = <<>> THEN s
    ELSE IF s.lg.mode = "a"
    THEN [s EXCEPT !.content = s.content \o data]
    ELSE [s EXCEPT !.content = WriteAt(s.content, s.lg.pos, data)]

\* write(2) on the file descriptor: at the end of the file in mode 'a'
\* (O_APPEND), at the descriptor's own offset in mode 'w'
RawWrite(s, data) ==
    IF data = <<>> THEN s
    ELSE IF s.lg.mode = "a"
    THEN [s EXCEPT !.lg.pos = Len(s.content) + Len(data), !.content = s.content \o data]
    ELSE [s EXCEPT !.lg.pos = s.lg.pos + Len(data),
                   !.content = WriteAt(s.content, s.lg.pos, data)]

\* the binary buffer writes out what it holds
BufferedFlush(s) == [RawWrite(s, s.lg.bbuf) EXCEPT !.lg.bbuf = <<>>]

\* the binary buffer is given data: it keeps what fits; otherwise it writes out
\* what it holds, and then writes data out too if data is larger than the buffer
BufferedWrite(s, data) ==
    IF Len(data) <= BUFFER_SIZE - Len(s.lg.bbuf)
    THEN [s EXCEPT !.lg.bbuf = s.lg.bbuf \o data]
    ELSE IF Len(data) > BUFFER_SIZE
    THEN RawWrite(BufferedFlush(s), data)
    ELSE [BufferedFlush(s) EXCEPT !.lg.bbuf = data]

\* the text layer hands its pending bytes to the binary buffer
TextWriteFlush(s) == [BufferedWrite(s, s.lg.buf) EXCEPT !.lg.buf = <<>>]

\* the text layer before it takes the encoded text data: the pending bytes are
\* handed down first if they would exceed the chunk size together with data
TextMakeRoom(s, data) ==
    IF s.lg.buf # <<>> /\ Len(s.lg.buf) + Len(data) > CHUNK_SIZE
    THEN TextWriteFlush(s) ELSE s

\* the text layer takes the encoded text data, and hands the pending bytes down
\* if they have reached the chunk size
TextPend(s, data) ==
    IF Len(s.lg.buf) + Len(data) >= CHUNK_SIZE
    THEN TextWriteFlush([s EXCEPT !.lg.buf = s.lg.buf \o data])
    ELSE [s EXCEPT !.lg.buf = s.lg.buf \o data]

\* self.fp.write(entry): ValueError on a closed file, UnicodeEncodeError on a
\* text that has no encoding, before any of it is kept
FpWrite(s, entry) ==
    IF s.lg.closed
    THEN [s EXCEPT !.err = "ValueError"]
    ELSE IF ~Encodable(entry)
    THEN [s EXCEPT !.err = "UnicodeEncodeError"]
    ELSE TextPend(TextMakeRoom(s, Encode(entry)), Encode(entry))

\* self.fp.flush(): the pending text and the binary buffer are written out
FpFlush(s) ==
    IF s.lg.closed
    THEN [s EXCEPT !.err = "ValueError"]
    ELSE BufferedFlush(TextWriteFlush(s))

\* self.fp.close(): flushes and closes
FpClose(s) ==
    IF s.lg.closed THEN s ELSE [FpFlush(s) EXCEPT !.lg.closed = TRUE]

\* self.fp.flush() once self.fp.write returned
FlushAfter(w) == IF w.err # "-" THEN w ELSE FpFlush(w)

\* self.fp.write(entry); self.fp.flush()
FileWrite(s, entry) == FlushAfter(FpWrite(s, entry))

\* write that puts the head of the entry in the file before it encodes the context
WriteOn_PartialLine(s, now, channel, level, message, context, extra) ==
    IF ~JsonSerializable(OrEmptyList(context))
    THEN [entry |-> <<>>]
         @@ [FileWrite(s, Text(<<"[">>) \o Strftime(now) \o Text(<<"]", " ">>)
                          \o Lower(channel) \o Text(<<".">>) \o Upper(level))
               EXCEPT !.err = "TypeError"]
    ELSE [entry |-> FormatEntry(now, channel, level, message, context, extra)]
         @@ FileWrite(s, FormatEntry(now, channel, level, message, context, extra))

\* SimpleLogger.write: json.dumps raises before anything is given to the file
\* object; the result carries the entry that was built
WriteOn(s, now, channel, level, message, context, extra) ==
    IF ~JsonSerializable(OrEmptyList(context))
    THEN [entry |-> <<>>] @@ [s EXCEPT !.err = "TypeError"]
    ELSE [entry |-> FormatEntry(now, channel, level, message, context, extra)]
         @@ FileWrite(s, FormatEntry(now, channel, level, message, context, extra))

\* the loop of SimpleLogger.__del__: it deletes the first key of the registry
\* it iterates, and the dictionary iterator raises on its next step
DelLoop(s) ==
    IF s.lg.registry = <<>>
    THEN s
    ELSE [s EXCEPT !.err = "RuntimeError", !.lg.registry = Tail(s.lg.registry)]

\* the body of SimpleLogger.__del__: the file is closed if it is open, then the
\* registry is looped over
DelOn(s) == DelLoop(FpClose(s))

(***************************************************************************)
(* Inputs.                                                                 *)
(***************************************************************************)
Bi == Text(<<"B","i">>)
bi == Text(<<"b","i">>)
Channels == {DEFAULT_CHANNEL, Bi, bi}

TheTime == [year |-> 2026, month |-> 10, day |-> 30, hour |-> 6, minute |-> 11, second |-> 7]
Times == {TheTime}

MsgPlain == Text(<<"m">>)
\* 'x\n' and e with acute accent, which is two bytes in the file
MsgTwoLines == Text(<<"x">>) \o <<NL, 233>>
Messages == {MsgPlain, MsgTwoLines}
\* 'm' and a lone surrogate, which has no encoding
MsgSurrogate == Text(<<"m">>) \o <<55296>>

CtxOrder == PyDict(<< <<Text(<<"i","d">>), PyInt(42)>> >>)
CtxBad == PyDict(<< <<Text(<<"i","d">>), PySet>> >>)
Contexts == {PyNone, CtxOrder, CtxBad}
\* 'a' and the escape character
CtxEscape == PyStr(Text(<<"a">>) \o <<27>>)

AllCalls == {LeveledCall(m) : m \in LeveledMethods} \cup {GenericCall(Text(<<"d","e","b","u","g">>))}

\* the arguments of a write() made directly on a root logger or a proxy: a
\* channel no proxy was forked for, a level in lower case, and an extra
NoChan == Text(<<"N","o">>)
LevelGiven == Text(<<"i","n","f","o">>)
ExtraDict == PyDict(<< <<Text(<<"a">>), PyInt(1)>> >>)
ExtraList == PyList(<<PyStr(Text(<<"x">>)), PyInt(0 - 5)>>)
ExtraText == PyStr(<<Ord("e"), NL, Ord("f")>>)
Extras == {PyNone, ExtraDict, ExtraList, ExtraText}
\* a channel and a level with letters outside ASCII (capital E with acute
\* accent, sharp s), and an extra that holds chr(1) and the no-break space
ChanAccent == <<201>> \o Text(<<"t">>)
LevelSharp == Text(<<"s","t","r","a">>) \o <<223>> \o Text(<<"e">>)
ExtraControl == PyList(<<PyStr(<<1, 160>>)>>)

\* the arguments of the direct writes: channel, level, message, context, extra
WriteArgs ==
    {<<NoChan, LevelGiven, MsgPlain, x, e>> : x \in {PyNone, CtxBad}, e \in Extras}
    \cup {<<ChanAccent, LevelSharp, MsgTwoLines, CtxEscape, ExtraControl>>,
          <<NoChan, LevelGiven, MsgSurrogate, PyNone, PyNone>>}

\* the content of a log file that is on disk before any logger is constructed
OldContent == Text(<<"o","l","d">>) \o <<NL>>

Threads == {"t1", "t2"}

IdleThread == [pc |-> "idle", channel |-> <<>>, made |-> NoProxy, ret |-> NoProxy,
               message |-> <<>>, entry |-> <<>>]

(***************************************************************************)
(* The state after nothing was constructed: the log file is absent, or     *)
(* present with earlier content.                                            *)
(***************************************************************************)
Init ==
    /\ fsExists \in BOOLEAN
    /\ fsContent = IF fsExists THEN OldContent ELSE <<>>
    /\ lg = [L \in Loggers |-> NoLogger]
    /\ proxies = {}
    /\ last = NoCall
    /\ emitted = <<>>
    /\ nCalls = 0
    /\ th = [t \in Threads |-> IdleThread]

Quiet == \A t \in Threads : th[t].pc = "idle"

(***************************************************************************)
(* Operations, each run to completion by a single caller.                  *)
(***************************************************************************)
\* opening for writing whether or not the file exists
OpenMode_AlwaysWrite(exists) == "w"

\* the mode SimpleLogger.__init__ opens the file in
OpenMode(exists) == IF exists THEN "a" ELSE "w"

\* open(filename, mode): 'w' creates or truncates the file, 'a' starts at its end
Opened(mode, content) ==
    [NoLogger EXCEPT !.st = "live", !.mode = mode,
                     !.pos = IF mode = "a" THEN Len(content) ELSE 0]

\* a constructor that leaves the registry empty
Construct_NoDefault(L) ==
    /\ \A t \in Threads : th[t].pc = "idle"
    /\ lg[L].st = "none"
    /\ fsExists' = TRUE
    /\ fsContent' = IF fsExists THEN fsContent ELSE <<>>
    /\ lg' = [lg EXCEPT ![L] = Opened(IF fsExists THEN "a" ELSE "w", fsContent)]
    /\ last' = Call("construct", L, "root", "-", NoProxy, <<>>, PyNone, NoProxy, "-")
    /\ UNCHANGED <<proxies, emitted, nCalls, th>>

\* SimpleLogger(filename)
Construct(L) ==
    /\ Quiet
    /\ lg[L].st = "none"
    /\ LET mode == OpenMode(fsExists)
           f == ForkOn(L, Opened(mode, fsContent), DEFAULT_CHANNEL)
       IN /\ fsExists' = TRUE
          /\ fsContent' = IF mode = "w" THEN <<>> ELSE fsContent
          /\ lg' = [lg EXCEPT ![L] = f.lg]
          /\ proxies' = proxies \cup f.made
          /\ last' = Call("construct", L, "root", "-", NoProxy, <<>>, PyNone, NoProxy, "-")
    /\ UNCHANGED <<emitted, nCalls, th>>

\* logger.fork(channel) on the root logger
Fork(L, c) ==
    /\ Quiet
    /\ Reachable(L)
    /\ LET f == ForkOn(L, lg[L], c)
       IN /\ lg' = [lg EXCEPT ![L] = f.lg]
          /\ proxies' = proxies \cup f.made
          /\ last' = Call("fork", L, "root", "-", NoProxy, c, PyNone, f.ret, "-")
    /\ UNCHANGED <<fsExists, fsContent, emitted, nCalls, th>>

\* proxy.fork(channel): SimpleLoggerProxy.fork
ProxyFork(p, c) ==
    /\ Quiet
    /\ p \in proxies
    /\ Reachable(p.logger)
    /\ LET f == ForkOn(p.logger, lg[p.logger], c)
       IN /\ lg' = [lg EXCEPT ![p.logger] = f.lg]
          /\ proxies' = proxies \cup f.made
          /\ last' = Call("fork", p.logger, "proxy", "-", p.id, c, PyNone, f.ret, "-")
    /\ UNCHANGED <<fsExists, fsContent, emitted, nCalls, th>>

\* SimpleLoggerProxy(logger, channel) called by client code: a proxy of root
\* logger L that the registry of L does not hold
MakeProxy(L, c) ==
    /\ Quiet
    /\ Reachable(L)
    /\ LET p == [NewProxy(L, lg[L].nobj + 1, c) EXCEPT !.by = "client"]
       IN /\ proxies' = proxies \cup {p}
          /\ lg' = [lg EXCEPT ![L].nobj = lg[L].nobj + 1]
          /\ last' = Call("proxy", L, "client", "-", NoProxy, c, PyNone, p.id, "-")
    /\ UNCHANGED <<fsExists, fsContent, emitted, nCalls, th>>

\* the number of proxies client code constructed
Direct == Cardinality({p \in proxies : p.by = "client"})

\* what a write that returned is remembered by
Emitted(L, channel, level, message, extra, entry) ==
    [logger |-> L, channel |-> channel, level |-> level, message |-> message,
     extra |-> extra, entry |-> entry]

\* the state after call c, a write on root logger c.logger, ended with result w
Written(c, channel, level, message, extra, w) ==
    /\ fsContent' = w.content
    /\ lg' = [lg EXCEPT ![c.logger] = w.lg]
    /\ emitted' = IF w.err = "-"
                  THEN Append(emitted, Emitted(c.logger, channel, level, message, extra,
                                               w.entry))
                  ELSE emitted
    /\ last' = [c EXCEPT !.err = w.err]
    /\ nCalls' = nCalls + 1
    /\ UNCHANGED <<fsExists, th>>

\* the effect of SimpleLoggerProxy.log on proxy p: logger.write with p's channel
\* and no extra
LogVia(p, via, l, call, now, message, context) ==
    Written(Call("log", p.logger, via, call.method, p.id, <<>>, context, NoProxy, "-"),
            p.channel, call.level, message, PyNone,
            WriteOn(File(l, fsContent), now, p.channel, call.level, message, context,
                    PyNone))

\* a leveled method or log() on the root logger: SimpleLogger.log
RootLog(L, call, now, message, context) ==
    /\ Quiet
    /\ Reachable(L)
    /\ LET f == ForkOn(L, lg[L], DEFAULT_CHANNEL)
           made == proxies \cup f.made
           p == CHOOSE q \in made : q.id = f.ret
       IN /\ proxies' = made
          /\ LogVia(p, "root", f.lg, call, now, message, context)

\* a leveled method or log() on a channel proxy: SimpleLoggerProxy.log
ProxyLog(p, call, now, message, context) ==
    /\ Quiet
    /\ p \in proxies
    /\ Reachable(p.logger)
    /\ proxies' = proxies
    /\ LogVia(p, "proxy", lg[p.logger], call, now, message, context)

\* logger.write(channel, level, message, context, extra) on the root logger
Write(L, now, channel, level, message, context, extra) ==
    /\ Quiet
    /\ Reachable(L)
    /\ proxies' = proxies
    /\ Written(Call("write", L, "root", "write", NoProxy, channel, context, NoProxy, "-"),
               channel, level, message, extra,
               WriteOn(File(lg[L], fsContent), now, channel, level, message, context,
                       extra))

\* proxy.write(...): the write inherited from SimpleLogger runs on the proxy,
\* which has no file object: it raises once the entry is built
ProxyWrite(p, now, channel, level, message, context, extra) ==
    /\ Quiet
    /\ p \in proxies
    /\ Reachable(p.logger)
    /\ last' = Call("write", p.logger, "proxy", "write", p.id, channel, context, NoProxy,
                     IF JsonSerializable(OrEmptyList(context))
                     THEN "AttributeError" ELSE "TypeError")
    /\ nCalls' = nCalls + 1
    /\ UNCHANGED <<fsExists, fsContent, lg, proxies, emitted, th>>

\* logger.fp.close() by the caller
CloseFile(L) ==
    /\ Quiet
    /\ Reachable(L)
    /\ ~lg[L].closed
    /\ lg' = [lg EXCEPT ![L] = FpClose(File(lg[L], fsContent)).lg]
    /\ fsContent' = FpClose(File(lg[L], fsContent)).content
    /\ last' = Call("close", L, "root", "-", NoProxy, <<>>, PyNone, NoProxy, "-")
    /\ UNCHANGED <<fsExists, proxies, emitted, nCalls, th>>

\* the state after __del__ ran on root logger L with result d
Deleted(L, st, d) ==
    /\ lg' = [lg EXCEPT ![L] = [d.lg EXCEPT !.st = st, !.dels = lg[L].dels + 1]]
    /\ fsContent' = d.content
    /\ UNCHANGED <<fsExists, proxies, emitted, nCalls, th>>

\* logger.__del__() called as a method: what it raises reaches the caller, and
\* the logger and its proxies stay in use
Teardown(L) ==
    /\ Quiet
    /\ Reachable(L)
    /\ Deleted(L, "torn", DelOn(File(lg[L], fsContent)))
    /\ last' = Call("del", L, "root", "-", NoProxy, <<>>, PyNone, NoProxy,
                     DelOn(File(lg[L], fsContent)).err)

\* the logger and its proxies are no longer referenced and the interpreter
\* finalizes them: it runs __del__, reports what __del__ raises and drops it
Finalize(L) ==
    /\ Quiet
    /\ Reachable(L)
    /\ Deleted(L, "gone", DelOn(File(lg[L], fsContent)))
    /\ last' = [Call("finalize", L, "root", "-", NoProxy, <<>>, PyNone, NoProxy, "-")
                  EXCEPT !.ignored = DelOn(File(lg[L], fsContent)).err]

\* proxy.__del__(): SimpleLoggerProxy.__del__ does nothing
ProxyDel(p) ==
    /\ Quiet
    /\ p \in proxies
    /\ Reachable(p.logger)
    /\ last' = Call("del", p.logger, "proxy", "-", p.id, <<>>, PyNone, NoProxy, "-")
    /\ UNCHANGED <<fsExists, fsContent, lg, proxies, emitted, nCalls, th>>

(***************************************************************************)
(* One root logger and its proxies: forks, log calls, a direct write,      *)
(* close, __del__ and finalization.                                        *)
(***************************************************************************)
Next ==
    \/ Construct("A")
    \/ \E c \in {DEFAULT_CHANNEL, Bi} : Fork("A", c)
    \/ \E p \in proxies : ProxyFork(p, Bi)
    \/ \E m \in Messages, x \in {PyNone, CtxBad} :
          nCalls < MaxCalls /\ RootLog("A", LeveledCall("notice"), TheTime, m, x)
    \/ \E p \in proxies, x \in {PyNone, CtxBad} :
          nCalls < MaxCalls /\ ProxyLog(p, LeveledCall("notice"), TheTime, MsgPlain, x)
    \/ \E m \in {MsgPlain, MsgSurrogate} :
          nCalls < MaxCalls
          /\ Write("A", TheTime, NoChan, LevelGiven, m, PyNone, ExtraText)
    \/ CloseFile("A")
    \/ lg["A"].dels < MaxDels /\ Teardown("A")
    \/ Finalize("A")

Spec == Init /\ [][Next]_vars

(***************************************************************************)
(* One root logger, every method of the logging surface with every input.  *)
(***************************************************************************)
NextFormat ==
    \/ Construct("A")
    \/ \E c \in Channels : Fork("A", c)
    \/ \E call \in AllCalls, now \in Times, x \in Contexts :
          nCalls < MaxFormatCalls /\ RootLog("A", call, now, MsgPlain, x)
    \/ \E p \in proxies, call \in AllCalls, now \in Times, x \in {PyNone, CtxBad} :
          nCalls < MaxFormatCalls /\ ProxyLog(p, call, now, MsgPlain, x)
    \/ \E a \in WriteArgs :
          nCalls < MaxFormatCalls /\ Write("A", TheTime, a[1], a[2], a[3], a[4], a[5])
    \/ \E p \in proxies, x \in {PyNone, CtxBad} :
          nCalls < MaxFormatCalls
          /\ ProxyWrite(p, TheTime, NoChan, LevelGiven, MsgPlain, x, ExtraDict)
    \/ \E p \in proxies : ProxyDel(p)

SpecFormat == Init /\ [][NextFormat]_vars

(***************************************************************************)
(* One root logger, the proxies fork makes and the proxies client code     *)
(* constructs: forks and log calls in any order, before and after __del__. *)
(***************************************************************************)
NextFork ==
    \/ Construct("A")
    \/ \E c \in {DEFAULT_CHANNEL, Bi} : Fork("A", c)
    \/ \E p \in proxies : ProxyFork(p, Bi)
    \/ \E c \in {DEFAULT_CHANNEL, Bi} : Direct < MaxDirect /\ MakeProxy("A", c)
    \/ \E call \in {LeveledCall("notice"), GenericCall(DEBUG)} :
          nCalls < MaxCalls /\ RootLog("A", call, TheTime, MsgPlain, PyNone)
    \/ \E p \in proxies :
          nCalls < MaxCalls /\ ProxyLog(p, LeveledCall("error"), TheTime, MsgPlain, PyNone)
    \/ lg["A"].st = "live" /\ Teardown("A")

SpecFork == Init /\ [][NextFork]_vars

(***************************************************************************)
(* Two root loggers constructed on the same path.                          *)
(***************************************************************************)
NextShared ==
    \/ \E L \in Loggers : Construct(L)
    \/ \E L \in Loggers : Fork(L, Bi)
    \/ \E L \in Loggers, x \in {PyNone, CtxOrder} :
          nCalls < MaxCalls /\ RootLog(L, LeveledCall("info"), TheTime, MsgPlain, x)
    \/ \E p \in proxies :
          nCalls < MaxCalls /\ ProxyLog(p, LeveledCall("critical"), TheTime, MsgPlain, PyNone)
    \/ \E L \in Loggers : CloseFile(L)

SpecShared == Init /\ [][NextShared]_vars

(***************************************************************************)
(* Concurrent callers sharing one root logger.  The code takes no lock, so *)
(* threads interleave between the statements of fork and of write.         *)
(***************************************************************************)
Shared == "A"

\* a thread calls fork(c) on the shared root logger or on one of its proxies
TForkCall(t, c) ==
    /\ th[t].pc = "idle"
    /\ Reachable(Shared)
    /\ th' = [th EXCEPT ![t] = [IdleThread EXCEPT !.pc = "fork_check", !.channel = c]]
    /\ UNCHANGED <<fsExists, fsContent, lg, proxies, last, emitted, nCalls>>

\* if channel in self._proxy_registry
TForkCheck(t) ==
    /\ th[t].pc = "fork_check"
    /\ th' = [th EXCEPT ![t].pc = IF RegHas(lg[Shared].registry, th[t].channel)
                                  THEN "fork_hit" ELSE "fork_make"]
    /\ UNCHANGED <<fsExists, fsContent, lg, proxies, last, emitted, nCalls>>

\* return self._proxy_registry[channel]  (the channel was found)
TForkHit(t) ==
    /\ th[t].pc = "fork_hit"
    /\ LET r == RegGet(lg[Shared].registry, th[t].channel)
       IN /\ th' = [th EXCEPT ![t].pc = "idle", ![t].ret = r]
          /\ last' = Call("fork", Shared, t, "-", NoProxy, th[t].channel, PyNone, r, "-")
    /\ UNCHANGED <<fsExists, fsContent, lg, proxies, emitted, nCalls>>

\* SimpleLoggerProxy(logger=self, channel=channel)
TForkMake(t) ==
    /\ th[t].pc = "fork_make"
    /\ LET p == NewProxy(Shared, lg[Shared].nobj + 1, th[t].channel)
       IN /\ proxies' = proxies \cup {p}
          /\ lg' = [lg EXCEPT ![Shared].nobj = lg[Shared].nobj + 1]
          /\ th' = [th EXCEPT ![t].pc = "fork_store", ![t].made = p.id]
    /\ UNCHANGED <<fsExists, fsContent, last, emitted, nCalls>>

\* self._proxy_registry[channel] = <the new proxy>
TForkStore(t) ==
    /\ th[t].pc = "fork_store"
    /\ lg' = [lg EXCEPT ![Shared].registry =
                 RegSet(lg[Shared].registry, th[t].channel, th[t].made)]
    /\ th' = [th EXCEPT ![t].pc = "fork_return"]
    /\ UNCHANGED <<fsExists, fsContent, proxies, last, emitted, nCalls>>

\* return self._proxy_registry[channel]  (after the insert)
TForkReturn(t) ==
    /\ th[t].pc = "fork_return"
    /\ LET r == RegGet(lg[Shared].registry, th[t].channel)
       IN /\ th' = [th EXCEPT ![t].pc = "idle", ![t].ret = r]
          /\ last' = Call("fork", Shared, t, "-", NoProxy, th[t].channel, PyNone, r, "-")
    /\ UNCHANGED <<fsExists, fsContent, lg, proxies, emitted, nCalls>>

\* a thread calls error(message) on proxy p: write() builds the log entry
TLogCall(t, p, now, message) ==
    /\ th[t].pc = "idle"
    /\ p \in proxies
    /\ Reachable(Shared)
    /\ th' = [th EXCEPT ![t] = [IdleThread EXCEPT
                 !.pc = "write", !.channel = p.channel, !.message = message,
                 !.entry = FormatEntry(now, p.channel, ERROR, message, PyNone, PyNone)]]
    /\ nCalls' = nCalls + 1
    /\ UNCHANGED <<fsExists, fsContent, lg, proxies, last, emitted>>

\* self.fp.write(log_entry)
TWrite(t) ==
    /\ th[t].pc = "write"
    /\ LET w == FpWrite(File(lg[Shared], fsContent), th[t].entry)
       IN /\ lg' = [lg EXCEPT ![Shared] = w.lg]
          /\ fsContent' = w.content
          /\ th' = [th EXCEPT ![t].pc = IF w.err = "-" THEN "flush" ELSE "idle"]
    /\ UNCHANGED <<fsExists, proxies, last, emitted, nCalls>>

\* self.fp.flush()
TFlush(t) ==
    /\ th[t].pc = "flush"
    /\ LET f == FpFlush(File(lg[Shared], fsContent))
       IN /\ lg' = [lg EXCEPT ![Shared] = f.lg]
          /\ fsContent' = f.content
          /\ emitted' = Append(emitted, Emitted(Shared, th[t].channel, ERROR, th[t].message,
                                                PyNone, th[t].entry))
          /\ th' = [th EXCEPT ![t].pc = "idle"]
    /\ UNCHANGED <<fsExists, proxies, last, nCalls>>

NextConc ==
    \/ Construct(Shared)
    \/ \E t \in Threads, c \in {DEFAULT_CHANNEL, Bi} : TForkCall(t, c)
    \/ \E t \in Threads : TForkCheck(t)
    \/ \E t \in Threads : TForkHit(t)
    \/ \E t \in Threads : TForkMake(t)
    \/ \E t \in Threads : TForkStore(t)
    \/ \E t \in Threads : TForkReturn(t)
    \/ \E t \in Threads, p \in proxies :
          nCalls < MaxCalls /\ TLogCall(t, p, TheTime, MsgPlain)
    \/ \E t \in Threads : TWrite(t)
    \/ \E t \in Threads : TFlush(t)

SpecConc == Init /\ [][NextConc]_vars

(***************************************************************************)
(* Reading a log entry back: "[date] channel.LEVEL: message context extra" *)
(***************************************************************************)
\* the first index at or after from where text s holds character c (0 if none)
IndexOf(s, c, from) ==
    IF \E i \in from..Len(s) : s[i] = c
    THEN CHOOSE i \in from..Len(s) : s[i] = c /\ \A j \in from..(i - 1) : s[j] # c
    ELSE 0

\* the channel segment of an entry: from after "] " to the first "."
ChannelTagOf(e) ==
    LET b == IndexOf(e, Ord("]"), 1)
        d == IndexOf(e, Ord("."), b)
    IN SubSeq(e, b + 2, d - 1)

\* the level segment of an entry: from after the first "." to the next ":"
LevelTagOf(e) ==
    LET d == IndexOf(e, Ord("."), IndexOf(e, Ord("]"), 1))
        c == IndexOf(e, Ord(":"), d)
    IN SubSeq(e, d + 1, c - 1)

LastEntry == emitted[Len(emitted)].entry

IsSuffix(s, t) == Len(s) <= Len(t) /\ SubSeq(t, Len(t) - Len(s) + 1, Len(t)) = s

\* the step is a log or write call (on a root logger or on a proxy) that
\* returned or raised
LogStep == nCalls' = nCalls + 1

(***************************************************************************)
(* Properties.                                                             *)
(***************************************************************************)
\* what the file held when root logger L was constructed
Pre(L) == IF lg[L].mode = "a" THEN OldContent ELSE <<>>

\* the bytes in the file of the entries es, in order
BytesOf(es) == Flatten([i \in 1..Len(es) |-> Encode(es[i].entry)])

\* the texts of a write that go into the entry as they are given
GivenTexts(e) == e.channel \o e.level \o e.message \o StrOf(OrEmptyList(e.extra))

\* C1: over the fork and log calls made on a root logger and its proxies (no
\* __del__ was called on it), all fork(c) calls return the identical proxy: fork
\* never constructs a second proxy for a channel, the registry holds that one
\* proxy under the name given, and a fork call returns the registered proxy,
\* also when client code constructed another proxy for the channel.
C1_ForkIdentity ==
    /\ \A p \in proxies, q \in proxies :
          (/\ p.by = "fork" /\ q.by = "fork"
           /\ p.logger = q.logger /\ p.channel = q.channel /\ lg[p.logger].st = "live")
             => p = q
    /\ \A L \in Loggers :
          lg[L].st = "live" =>
             /\ \A i \in 1..Len(lg[L].registry), j \in 1..Len(lg[L].registry) :
                   lg[L].registry[i].channel = lg[L].registry[j].channel => i = j
             /\ \A p \in proxies :
                   (p.logger = L /\ p.by = "fork") =>
                      /\ RegHas(lg[L].registry, p.channel)
                      /\ RegGet(lg[L].registry, p.channel) = p.id
    /\ last.op = "fork" =>
          /\ \E p \in proxies :
                p.id = last.ret /\ p.logger = last.logger /\ p.channel = last.channel
          /\ RegGet(lg[last.logger].registry, last.channel) = last.ret

\* client code constructed a proxy for "Bi", fork("Bi") on the root logger made
\* and registered another one, and fork("Bi") on the client's proxy returned the
\* registered one
C1_Witness ==
    /\ lg["A"].st = "live"
    /\ last.op = "fork"
    /\ last.via = "proxy"
    /\ last.channel = Bi
    /\ last.proxy = <<"A", 2>>
    /\ ProxyObj(<<"A", 2>>).by = "client"
    /\ ProxyObj(<<"A", 2>>).channel = Bi
    /\ last.ret = <<"A", 3>>
    /\ RegGet(lg["A"].registry, Bi) = <<"A", 3>>

\* C2 as stated: N log calls through one root logger leave exactly N lines
\* (newline characters) more in the file.
C2_ExactlyNLines ==
    lg["A"].st # "none" =>
       /\ fsContent = Pre("A") \o BytesOf(emitted)
       /\ CountNL(fsContent) = CountNL(Pre("A")) + Len(emitted)

\* C2 amended: the log calls through one root logger that returned have each
\* appended one entry, in call order, ending with a newline, and flushed it; an
\* entry is one line when the message, channel, level and extra given hold no
\* newline, and one line more for every newline in them, which is inserted as
\* given.
C2_EntriesInOrder ==
    lg["A"].st # "none" =>
       /\ fsContent = Pre("A") \o BytesOf(emitted)
       /\ lg["A"].buf = <<>>
       /\ lg["A"].bbuf = <<>>
       /\ \A i \in 1..Len(emitted) :
             /\ emitted[i].entry[Len(emitted[i].entry)] = NL
             /\ CountNL(emitted[i].entry) = 1 + CountNL(GivenTexts(emitted[i]))
       /\ (\A i \in 1..Len(emitted) : CountNL(GivenTexts(emitted[i])) = 0) =>
             CountNL(fsContent) = CountNL(Pre("A")) + Len(emitted)

\* two calls, one on the root logger and one on a forked proxy, wrote two entries
\* to a file the logger created
C2_Witness ==
    /\ Len(emitted) = 2
    /\ lg["A"].mode = "w"
    /\ ChannelTagOf(emitted[1].entry) = DEFAULT_CHANNEL
    /\ ChannelTagOf(emitted[2].entry) = bi
    /\ CountNL(fsContent) = 2

\* C3: constructing a root logger on a path that exists leaves the file as it
\* was and opens it for appending, and every log call through that logger puts
\* its entry after the content already there; constructing on a path that does
\* not exist creates an empty file.
C3_NoTruncate ==
    [][\A L \in Loggers :
          /\ (lg[L].st = "none" /\ lg'[L].st = "live") =>
                /\ fsExists'
                /\ IF fsExists
                   THEN fsContent' = fsContent /\ lg'[L].mode = "a"
                   ELSE fsContent' = <<>>
          /\ (LogStep /\ last'.logger = L /\ last'.err = "-" /\ lg[L].mode = "a") =>
                fsContent' = fsContent \o Encode(emitted'[Len(emitted')].entry)
      ]_vars

\* the file had a line, two root loggers were constructed on it and the second
\* one logged: the old line is followed by the new entry
C3_Witness ==
    /\ lg["A"].mode = "a"
    /\ lg["B"].mode = "a"
    /\ last.op = "log"
    /\ last.logger = "B"
    /\ last.err = "-"
    /\ fsContent = OldContent \o Encode(LastEntry)

\* C4: when __del__ has run on a root logger, as a method or as its finalizer,
\* it has raised nothing, the file is closed and the channel registry is empty,
\* whatever channels were registered.
C4_TeardownReleasesAll ==
    ((last.op = "del" /\ last.via = "root") \/ last.op = "finalize") =>
       /\ last.err = "-"
       /\ last.ignored = "-"
       /\ lg[last.logger].closed
       /\ lg[last.logger].registry = <<>>

\* C5 as stated: a log call made on a closed file or with a context json.dumps
\* cannot encode raises to the caller, and a log call that raises leaves the
\* file, the registry and the proxies as they were.
C5_FailedWriteChangesNothing ==
    [][LogStep =>
          /\ last'.context = CtxBad => last'.err = "TypeError"
          /\ (lg[last'.logger].closed /\ last'.context # CtxBad) => last'.err # "-"
          /\ last'.err # "-" =>
                /\ fsContent' = fsContent
                /\ fsExists' = fsExists
                /\ lg' = lg
                /\ proxies' = proxies
                /\ emitted' = emitted
      ]_vars

\* C5 amended: a log call made on a closed file or with a context json.dumps
\* cannot encode raises to the caller (ValueError from the file object, TypeError
\* from json.dumps, AttributeError from a write called on a proxy); a call that
\* raises leaves the file as it was, with no partial line, and leaves the
\* registry and the proxies as they were unless it is a log call on the root
\* logger made after __del__ removed "app" from the registry: that call
\* registers a new "app" proxy before the write raises.
C5_FailedWriteKeepsFile ==
    [][LogStep =>
          /\ last'.context = CtxBad => last'.err = "TypeError"
          /\ (lg[last'.logger].closed /\ last'.context # CtxBad) =>
                last'.err = IF last'.op = "write" /\ last'.via = "proxy"
                            THEN "AttributeError" ELSE "ValueError"
          /\ last'.err # "-" =>
                /\ fsContent' = fsContent
                /\ fsExists' = fsExists
                /\ emitted' = emitted
                /\ IF /\ last'.op = "log"
                      /\ last'.via = "root"
                      /\ ~RegHas(lg[last'.logger].registry, DEFAULT_CHANNEL)
                   THEN /\ lg[last'.logger].st = "torn"
                        /\ lg'[last'.logger].registry =
                              Append(lg[last'.logger].registry,
                                     [channel |-> DEFAULT_CHANNEL, proxy |-> last'.proxy])
                        /\ proxies' = proxies \cup {[id |-> last'.proxy,
                                                     logger |-> last'.logger,
                                                     channel |-> DEFAULT_CHANNEL,
                                                     by |-> "fork"]}
                        /\ last'.proxy = <<last'.logger, lg[last'.logger].nobj + 1>>
                        /\ lg' = [lg EXCEPT ![last'.logger].registry =
                                               lg'[last'.logger].registry,
                                            ![last'.logger].nobj = lg[last'.logger].nobj + 1]
                   ELSE lg' = lg /\ proxies' = proxies
      ]_vars

\* after an entry was written and __del__ was called, a log call on the root
\* logger raised on the closed file, left the file as it was and registered a
\* new "app" proxy
C5_Witness ==
    /\ last.op = "log"
    /\ last.via = "root"
    /\ last.err = "ValueError"
    /\ lg["A"].st = "torn"
    /\ lg["A"].closed
    /\ last.proxy # <<"A", 1>>
    /\ RegGet(lg["A"].registry, DEFAULT_CHANNEL) = last.proxy
    /\ Len(emitted) = 1
    /\ fsContent = Pre("A") \o Encode(emitted[1].entry)

\* the level tag the mapping table fixes for each leveled method
MappingTable(m) ==
    CASE m = "emergency" -> Text(<<"E","M","E","R","G","E","N","C","Y">>)
      [] m = "alert"     -> Text(<<"A","L","E","R","T">>)
      [] m = "critical"  -> Text(<<"C","R","I","T","I","C","A","L">>)
      [] m = "error"     -> Text(<<"E","R","R","O","R">>)
      [] m = "warning"   -> Text(<<"W","A","R","N","I","N","G">>)
      [] m = "notice"    -> Text(<<"I","N","F","O">>)
      [] m = "info"      -> Text(<<"I","N","F","O">>)
      [] m = "debug"     -> Text(<<"D","E","B","U","G">>)

\* C6: the entry a leveled call on a root logger or a proxy puts in the file
\* carries the level tag of the mapping table; notice is written as INFO.
C6_LevelTags ==
    (last.op = "log" /\ last.err = "-" /\ last.method \in LeveledMethods) =>
       /\ LevelTagOf(LastEntry) = MappingTable(last.method)
       /\ IsSuffix(Encode(LastEntry), fsContent)

\* notice() on a forked proxy wrote an entry tagged INFO
C6_Witness ==
    /\ last.op = "log"
    /\ last.err = "-"
    /\ last.method = "notice"
    /\ last.via = "proxy"
    /\ last.proxy # <<"A", 1>>
    /\ LevelTagOf(LastEntry) = Text(<<"I","N","F","O">>)

\* "app" is the first entry of the registry of a root logger on which __del__
\* was not called, bound to the proxy the constructor made
C7_AppRegistered ==
    \A L \in Loggers :
       lg[L].st = "live" =>
          /\ Len(lg[L].registry) >= 1
          /\ lg[L].registry[1] = [channel |-> DEFAULT_CHANNEL, proxy |-> <<L, 1>>]
          /\ [id |-> <<L, 1>>, logger |-> L, channel |-> DEFAULT_CHANNEL, by |-> "fork"]
                \in proxies

\* a log call on the root logger went through the proxy the constructor made,
\* under the channel "app", and added nothing to the registry
C7_ThroughFirstProxy ==
    /\ last'.proxy = <<last'.logger, 1>>
    /\ lg'[last'.logger].registry = lg[last'.logger].registry
    /\ proxies' = proxies
    /\ last'.err = "-" => ChannelTagOf(emitted'[Len(emitted')].entry) = DEFAULT_CHANNEL

\* C7 as stated: "app" is registered from construction on, and every log call
\* made on the root logger writes through that proxy and adds nothing to the
\* registry.
C7_EveryRootCall ==
    [][/\ C7_AppRegistered'
       /\ (LogStep /\ last'.op = "log" /\ last'.via = "root") => C7_ThroughFirstProxy
      ]_vars

\* C7 amended: "app" is registered from construction on, and on a root logger on
\* which __del__ was not called every log call made on the root logger writes
\* through that proxy, under the channel "app", and adds nothing to the registry.
C7_DefaultChannel ==
    [][/\ C7_AppRegistered'
       /\ (LogStep /\ last'.op = "log" /\ last'.via = "root"
             /\ lg[last'.logger].st = "live") => C7_ThroughFirstProxy
      ]_vars

\* notice() on the root logger wrote under "app" through the proxy the
\* constructor made, with two channels registered and a second "app" proxy that
\* client code constructed
C7_Witness ==
    /\ lg["A"].st = "live"
    /\ last.op = "log"
    /\ last.via = "root"
    /\ last.err = "-"
    /\ last.method = "notice"
    /\ last.proxy = <<"A", 1>>
    /\ Len(lg["A"].registry) = 2
    /\ \E q \in proxies : q.by = "client" /\ q.channel = DEFAULT_CHANNEL
    /\ ChannelTagOf(LastEntry) = DEFAULT_CHANNEL

\* the names stored in proxies and registry are the names given to fork, and
\* an entry carries the lowercased name of the proxy that logged it, or of the
\* channel given to a direct write
C8_Names ==
    /\ \A L \in Loggers :
          \A i \in 1..Len(lg[L].registry) :
             \E p \in proxies : /\ p.id = lg[L].registry[i].proxy
                                /\ p.channel = lg[L].registry[i].channel
    /\ last.op = "fork" => ProxyObj(last.ret).channel = last.channel
    /\ (RegHas(lg["A"].registry, Bi) /\ RegHas(lg["A"].registry, bi)) =>
          RegGet(lg["A"].registry, Bi) # RegGet(lg["A"].registry, bi)
    /\ (last.op = "log" /\ last.err = "-") =>
          /\ ChannelTagOf(LastEntry) = Lower(ProxyObj(last.proxy).channel)
          /\ ProxyObj(last.proxy).channel \in {Bi, bi} => ChannelTagOf(LastEntry) = bi
    /\ (last.op = "write" /\ last.err = "-") =>
          ChannelTagOf(LastEntry) = Lower(last.channel)

\* C8: an entry carries the channel name of the proxy that logged it, lowercased
\* when written; the name in the proxy and the registry key keep the case given
\* to fork, no log call changes them, and fork("Bi") and fork("bi") are two
\* proxies that both write "bi".
C8_ChannelCase ==
    [][/\ C8_Names'
       /\ LogStep =>
             /\ \A p \in proxies : p \in proxies'
             /\ \A i \in 1..Len(lg["A"].registry) :
                   /\ i <= Len(lg'["A"].registry)
                   /\ lg'["A"].registry[i] = lg["A"].registry[i]
      ]_vars

\* the proxy forked as "Bi" logged under "bi" while "bi" is another proxy
C8_Witness ==
    /\ RegHas(lg["A"].registry, Bi)
    /\ RegHas(lg["A"].registry, bi)
    /\ last.op = "log"
    /\ last.err = "-"
    /\ last.proxy = RegGet(lg["A"].registry, Bi)
    /\ ProxyObj(last.proxy).channel = Bi
    /\ ChannelTagOf(LastEntry) = bi

\* C9: for every log call that returns, whichever root logger on the path made
\* it, the file before the call is a prefix of the file after it.
C9_AppendOnly ==
    [][(LogStep /\ last'.err = "-") => IsPrefix(fsContent, fsContent')]_vars

\* what concurrent callers of fork were handed, per channel
ForkReturns(c) == {th[t].ret : t \in {u \in Threads : th[u].ret # NoProxy /\ th[u].channel = c}}

\* the bytes of the entries the concurrent callers write
ThreadEntries ==
    {Encode(FormatEntry(TheTime, c, ERROR, MsgPlain, PyNone, PyNone)) : c \in Channels}

\* the file is made of whole entries
RECURSIVE WholeEntries(_)
WholeEntries(s) ==
    \/ s = <<>>
    \/ \E e \in ThreadEntries :
          IsPrefix(e, s) /\ WholeEntries(SubSeq(s, Len(e) + 1, Len(s)))

OneInstance == \A c \in Channels : Cardinality(ForkReturns(c)) <= 1

WholeFile ==
    \E k \in 0..Len(fsContent) :
       /\ SubSeq(fsContent, 1, k) \in {<<>>, OldContent}
       /\ WholeEntries(SubSeq(fsContent, k + 1, Len(fsContent)))

\* C10: with concurrent callers on one root logger, the fork calls for one name
\* return one proxy, a registered proxy is never replaced, and the file holds
\* whole entries only.
C10_Serialized ==
    [][/\ OneInstance'
       /\ \A i \in 1..Len(lg[Shared].registry) :
             /\ i <= Len(lg'[Shared].registry)
             /\ lg'[Shared].registry[i] = lg[Shared].registry[i]
       /\ WholeFile'
      ]_vars

====
